---- MODULE Spec2Model ----
(***************************************************************************)
(* Promptdown: the document model (Message, StructuredPrompt), the parser  *)
(* from_promptdown_string with its conversation grammar, and the           *)
(* serializer to_promptdown_string.                                        *)
(*                                                                         *)
(* A Python str is a sequence of one-character strings.  An Optional value *)
(* is a sequence of length 0 (None) or 1 (the value).                      *)
(***************************************************************************)
EXTENDS Integers, Sequences, FiniteSets, TLC

VARIABLES
    op,         \* the call that produced this state ("start" before any call)
    args,       \* the arguments of that call
    text,       \* the str passed to the parser or returned by the serializer
    prompt,     \* Optional StructuredPrompt: the object built by the constructor
    parsed,     \* Optional StructuredPrompt: what from_promptdown_string returned
    err,        \* the exception raised by the call ("" when none)
    warnings,   \* the records the call logged at WARNING level
    msg,        \* Optional Message: what Message(...) returned
    eq,         \* the value of the last Message == Message
    messages,   \* the list of messages the last converter call returned
    response_parts  \* the list of parts the last coercion call returned

vars == <<op, args, text, prompt, parsed, err, warnings, msg, eq, messages,
          response_parts>>

----------------------------------------------------------------------------
(* Optional values and Python truthiness *)

None == <<>>
Some(x) == <<x>>
IsNone(o) == Len(o) = 0
IsSet(o) == Len(o) = 1
\* `if x:` for x: str | None
Truthy(o) == Len(o) = 1 /\ Len(o[1]) > 0

SeqMin(S) == CHOOSE x \in S : \A y \in S : x <= y
SeqMax(S) == CHOOSE x \in S : \A y \in S : x >= y

----------------------------------------------------------------------------
(* str methods *)

Whitespace == {" ", "\t", "\n", "\r", "\f"}

UpperCase == <<"A","B","C","D","E","F","G","H","I","J","K","L","M",
               "N","O","P","Q","R","S","T","U","V","W","X","Y","Z">>
LowerCase == <<"a","b","c","d","e","f","g","h","i","j","k","l","m",
               "n","o","p","q","r","s","t","u","v","w","x","y","z">>
Digits == {"0","1","2","3","4","5","6","7","8","9"}
Letters == {UpperCase[i] : i \in 1..26} \cup {LowerCase[i] : i \in 1..26}

lower_char(c) ==
    IF \E i \in 1..26 : UpperCase[i] = c
    THEN LowerCase[CHOOSE i \in 1..26 : UpperCase[i] = c]
    ELSE c

\* str.lower
lower(s) == [i \in 1..Len(s) |-> lower_char(s[i])]

\* str.strip
strip(s) ==
    LET keep == {i \in 1..Len(s) : s[i] \notin Whitespace}
    IN  IF keep = {} THEN <<>> ELSE SubSeq(s, SeqMin(keep), SeqMax(keep))

\* str.startswith, str.endswith
startswith(s, p) == Len(s) >= Len(p) /\ SubSeq(s, 1, Len(p)) = p
endswith(s, p) == Len(s) >= Len(p) /\ SubSeq(s, Len(s) - Len(p) + 1, Len(s)) = p

\* str.split("\n")
RECURSIVE split_lines(_)
split_lines(s) ==
    LET nl == {i \in 1..Len(s) : s[i] = "\n"}
    IN  IF nl = {} THEN <<s>>
        ELSE LET i == SeqMin(nl)
             IN  <<SubSeq(s, 1, i - 1)>> \o split_lines(SubSeq(s, i + 1, Len(s)))

\* sep.join(parts)
RECURSIVE join(_, _)
join(sep, parts) ==
    IF Len(parts) = 0 THEN <<>>
    ELSE IF Len(parts) = 1 THEN parts[1]
    ELSE parts[1] \o sep \o join(sep, Tail(parts))

----------------------------------------------------------------------------
(* Literals of the source *)

StarStar == <<"*", "*">>
ColonStarStar == <<":", "*", "*">>
HashSpace == <<"#", " ">>
HashHashSpace == <<"#", "#", " ">>
STR_system == <<"s","y","s","t","e","m">>
STR_developer == <<"d","e","v","e","l","o","p","e","r">>
STR_User == <<"U","s","e","r">>
STR_Assistant == <<"A","s","s","i","s","t","a","n","t">>
STR_system_message == <<"s","y","s","t","e","m"," ","m","e","s","s","a","g","e">>
STR_developer_message ==
    <<"d","e","v","e","l","o","p","e","r"," ","m","e","s","s","a","g","e">>
STR_conversation == <<"c","o","n","v","e","r","s","a","t","i","o","n">>
HDR_System_Message ==
    <<"#","#"," ","S","y","s","t","e","m"," ","M","e","s","s","a","g","e">>
HDR_Developer_Message ==
    <<"#","#"," ","D","e","v","e","l","o","p","e","r"," ","M","e","s","s","a","g","e">>
HDR_Conversation ==
    <<"#","#"," ","C","o","n","v","e","r","s","a","t","i","o","n">>

reserved_roles == {STR_system, STR_developer}
known_roles == {STR_User, STR_Assistant}

\* the ValueErrors of the source, by their message
ERR_ReservedRole == "The role is reserved and cannot be used for conversation messages."
ERR_LeadExclusivity == "Exactly one of system_message or developer_message must be set."
ERR_NoName == "No prompt name found in the promptdown string."
ERR_NeitherLead == "Neither system message nor developer message found."
ERR_BothLead == "Both system message and developer message found."

\* the warnings of _parse_conversation, by their message
WARN_Orphaned == "Orphaned content found before any role definition. Ignoring."
WARN_UnknownRole == "Unknown role encountered in conversation."
WARN_Malformed == "Potential malformed role line encountered"

----------------------------------------------------------------------------
(* Message and StructuredPrompt *)

\* the role compared without lower-casing it
Message_post_init_CaseSensitive(role) ==
    IF role \in reserved_roles THEN ERR_ReservedRole ELSE ""

\* Message.__post_init__: the error raised, "" when the Message is built
Message_post_init(role) ==
    IF lower(role) \in reserved_roles THEN ERR_ReservedRole ELSE ""

\* the dataclass fields of a Message
Message(role, content, name) == [role |-> role, content |-> content, name |-> name]

\* Message.__eq__ as @dataclass generates it: the field tuples compared
Message_eq(a, b) ==
    <<a.role, a.content, a.name>> = <<b.role, b.content, b.name>>

\* only the absence of both lead messages is rejected
StructuredPrompt_post_init_NeitherOnly(system_message, developer_message) ==
    IF IsNone(system_message) /\ IsNone(developer_message)
    THEN ERR_LeadExclusivity ELSE ""

\* StructuredPrompt.__post_init__: the error raised, "" when the object is built
StructuredPrompt_post_init(system_message, developer_message) ==
    IF IsNone(system_message) = IsNone(developer_message)
    THEN ERR_LeadExclusivity ELSE ""

StructuredPrompt(name, system_message, developer_message, conversation) ==
    [name |-> name, system_message |-> system_message,
     developer_message |-> developer_message, conversation |-> conversation]

\* list.__eq__ over Messages
conversation_eq(a, b) ==
    /\ Len(a) = Len(b)
    /\ \A i \in 1..Len(a) : Message_eq(a[i], b[i])

\* StructuredPrompt.__eq__ as @dataclass generates it
StructuredPrompt_eq(p, q) ==
    /\ p.name = q.name
    /\ p.system_message = q.system_message
    /\ p.developer_message = q.developer_message
    /\ IsNone(p.conversation) = IsNone(q.conversation)
    /\ IsSet(p.conversation) => conversation_eq(p.conversation[1], q.conversation[1])

----------------------------------------------------------------------------
(* _parse_conversation *)

\* [a-zA-Z0-9_ ]
RoleChars == Letters \cup Digits \cup {"_", " "}

\* role_pattern.match(line): None, or the groups (group 2 is None when the
\* optional part did not take part in the match)
role_pattern_match(line) ==
    LET n == Len(line)
        stop == {k \in 3..n : line[k] \notin RoleChars}
        e == IF stop = {} THEN n ELSE SeqMin(stop) - 1
        rest == SubSeq(line, e + 1, n)
        nonws == {k \in 1..Len(rest) : rest[k] \notin Whitespace}
        open == IF nonws = {} THEN 0 ELSE SeqMin(nonws)
        closes == {k \in (open + 1)..Len(rest) : rest[k] = ")"}
        close == IF closes = {} THEN 0 ELSE SeqMin(closes)
    IN  IF ~startswith(line, StarStar) \/ e < 3 THEN None
        ELSE IF rest = ColonStarStar
        THEN Some([group1 |-> SubSeq(line, 3, e), group2 |-> None])
        ELSE IF /\ open > 0
                /\ rest[open] = "("
                /\ close > open + 1
                /\ SubSeq(rest, close + 1, Len(rest)) = ColonStarStar
        THEN Some([group1 |-> SubSeq(line, 3, e),
                   group2 |-> Some(SubSeq(rest, open + 1, close - 1))])
        ELSE None

\* the loop variables before the first line
parse_conversation_start ==
    [conversation |-> <<>>, role |-> None, name |-> None, content |-> <<>>,
     log |-> <<>>]

\* the Message flushed with its content lines joined without the space, as a
\* mutation would build it
flushed_Unspaced(st) == Message(st.role[1], strip(join(<<>>, st.content)), st.name)

\* the Message flushed from the loop variables
flushed(st) == Message(st.role[1], strip(join(<<" ">>, st.content)), st.name)

\* the warning is logged and the content kept
discard_orphaned_Kept(st) == [st EXCEPT !.log = Append(@, WARN_Orphaned)]

\* the `elif content:` branch: the warning is logged, the content discarded
discard_orphaned(st) ==
    [st EXCEPT !.log = Append(@, WARN_Orphaned), !.content = <<>>]

\* the warning is logged and the role and name left as they were
unknown_role_Kept(st) == [st EXCEPT !.log = Append(@, WARN_UnknownRole)]

\* the `else:` branch of `if found_role in known_roles:`: the warning is
\* logged, role and name are set to None
unknown_role(st) ==
    [st EXCEPT !.log = Append(@, WARN_UnknownRole), !.role = None, !.name = None]

\* nothing is logged for the line
malformed_role_line_Silent(st) == st

\* the fallback `if line_strip.startswith("**") and line_strip.endswith(":**")`:
\* the warning is logged
malformed_role_line(st) == [st EXCEPT !.log = Append(@, WARN_Malformed)]

\* one iteration of `for line in lines`
parse_conversation_line(st, line) ==
    LET line_strip == strip(line)
        match == role_pattern_match(line_strip)
    IN  IF IsSet(match)
        THEN LET afterFlush ==
                     IF Truthy(st.role) /\ Len(st.content) > 0
                     THEN [st EXCEPT !.conversation = Append(@, flushed(st)),
                                     !.content = <<>>]
                     ELSE IF Len(st.content) > 0
                     THEN discard_orphaned(st)
                     ELSE st
                 found_role == strip(match[1].group1)
                 found_name == IF Truthy(match[1].group2)
                               THEN Some(strip(match[1].group2[1])) ELSE None
             IN  IF found_role \in known_roles
                 THEN [afterFlush EXCEPT !.role = Some(found_role),
                                         !.name = found_name]
                 ELSE unknown_role(afterFlush)
        ELSE LET warned ==
                     IF startswith(line_strip, StarStar)
                        /\ endswith(line_strip, ColonStarStar)
                     THEN malformed_role_line(st)
                     ELSE st
             IN  [warned EXCEPT !.content = Append(@, line)]

\* `for line in lines`, from line i on
RECURSIVE parse_conversation_loop(_, _, _)
parse_conversation_loop(st, lines, i) ==
    IF i > Len(lines) THEN st
    ELSE CHOOSE end \in {parse_conversation_loop(next, lines, i + 1) :
                             next \in {parse_conversation_line(st, lines[i])}} : TRUE

\* the code after the loop: the last message is appended when a role is set
\* and content has accumulated
parse_conversation_end(st) ==
    [conversation |->
         IF Truthy(st.role) /\ Len(st.content) > 0
         THEN Append(st.conversation, flushed(st)) ELSE st.conversation,
     log |-> st.log]

\* _parse_conversation(lines): the Messages returned and the warnings logged
parse_conversation(lines) ==
    CHOOSE r \in {parse_conversation_end(st) :
                      st \in {parse_conversation_loop(parse_conversation_start, lines, 1)}} :
        TRUE

----------------------------------------------------------------------------
(* from_promptdown_string *)

scan_start ==
    [name |-> None, current_section |-> None, system_message_lines |-> <<>>,
     developer_message_lines |-> <<>>, conversation_lines |-> <<>>]

\* stripped_line.startswith("# ")
is_name_line(stripped_line) == startswith(stripped_line, HashSpace)

\* the heading text taken without trimming it
heading_name_Untrimmed(stripped_line) == SubSeq(stripped_line, 3, Len(stripped_line))

\* stripped_line[2:].strip()
heading_name(stripped_line) == strip(SubSeq(stripped_line, 3, Len(stripped_line)))

\* stripped_line[3:].strip().lower()
section_name(stripped_line) ==
    lower(strip(SubSeq(stripped_line, 4, Len(stripped_line))))

\* the name is set and the current section left as it was
name_line_SectionKept(st, stripped_line) ==
    [st EXCEPT !.name = Some(heading_name(stripped_line))]

\* the branch of a `# ` line: the name is set, the current section reset
name_line(st, stripped_line) ==
    [st EXCEPT !.name = Some(heading_name(stripped_line)), !.current_section = None]

\* one iteration of `for line in lines`
scan_line(st, line) ==
    LET stripped_line == strip(line)
    IN  IF is_name_line(stripped_line)
        THEN name_line(st, stripped_line)
        ELSE IF startswith(stripped_line, HashHashSpace)
        THEN [st EXCEPT !.current_section = Some(section_name(stripped_line))]
        ELSE IF st.current_section = Some(STR_system_message)
        THEN IF Len(stripped_line) > 0
             THEN [st EXCEPT !.system_message_lines = Append(@, stripped_line)]
             ELSE st
        ELSE IF st.current_section = Some(STR_developer_message)
        THEN IF Len(stripped_line) > 0
             THEN [st EXCEPT !.developer_message_lines = Append(@, stripped_line)]
             ELSE st
        ELSE IF st.current_section = Some(STR_conversation)
        THEN [st EXCEPT !.conversation_lines = Append(@, stripped_line)]
        ELSE st

\* `for line in lines`, from line i on
RECURSIVE scan_loop(_, _, _)
scan_loop(st, lines, i) ==
    IF i > Len(lines) THEN st
    ELSE CHOOSE end \in {scan_loop(next, lines, i + 1) :
                             next \in {scan_line(st, lines[i])}} : TRUE

\* the lines of a lead message joined with blanks
lead_text_Spaced(lines) == join(<<" ">>, lines)

\* "\n".join(system_message_lines), "\n".join(developer_message_lines)
lead_text(lines) == join(<<"\n">>, lines)

\* the code after the scan (lines 180-209), on the scan's variables
from_scanned(st) ==
    LET hasSys == Len(st.system_message_lines) > 0
        hasDev == Len(st.developer_message_lines) > 0
        system_message ==
            IF hasSys THEN Some(lead_text(st.system_message_lines)) ELSE None
        developer_message ==
            IF hasDev THEN Some(lead_text(st.developer_message_lines)) ELSE None
        noConv == Len(st.conversation_lines) = 0
        init == StructuredPrompt_post_init(system_message, developer_message)
    IN  IF IsNone(st.name)
        THEN [err |-> ERR_NoName, prompt |-> None, log |-> <<>>]
        ELSE IF ~hasSys /\ ~hasDev
        THEN [err |-> ERR_NeitherLead, prompt |-> None, log |-> <<>>]
        ELSE IF hasSys /\ hasDev
        THEN [err |-> ERR_BothLead, prompt |-> None, log |-> <<>>]
        ELSE CHOOSE r \in
                 {[err |-> init,
                   prompt |->
                       IF init # "" THEN None
                       ELSE Some(StructuredPrompt(
                                st.name[1], system_message, developer_message,
                                IF noConv THEN None ELSE Some(conv.conversation))),
                   log |-> IF noConv THEN <<>> ELSE conv.log] :
                  conv \in {parse_conversation(st.conversation_lines)}} : TRUE

\* from_promptdown_string(promptdown_string): the error raised ("" when none),
\* the StructuredPrompt returned (None when an error is raised) and the
\* warnings logged
from_promptdown_string(promptdown_string) ==
    CHOOSE r \in {from_scanned(st) :
                     st \in {scan_loop(scan_start, split_lines(promptdown_string), 1)}} :
        TRUE

----------------------------------------------------------------------------
(* to_promptdown_string *)

\* the lines appended for one Message
message_lines(message) ==
    <<IF Truthy(message.name)
      THEN StarStar \o message.role \o <<" ", "(">> \o message.name[1]
               \o <<")">> \o ColonStarStar
      ELSE StarStar \o message.role \o ColonStarStar,
      message.content,
      <<>>>>

RECURSIVE conversation_lines(_)
conversation_lines(conversation) ==
    IF Len(conversation) = 0 THEN <<>>
    ELSE message_lines(conversation[1]) \o conversation_lines(Tail(conversation))

to_promptdown_string(self) ==
    LET head == <<HashSpace \o self.name, <<>>>>
        lead == IF IsSet(self.system_message)
                THEN <<HDR_System_Message, self.system_message[1], <<>>>>
                ELSE IF IsSet(self.developer_message)
                THEN <<HDR_Developer_Message, self.developer_message[1], <<>>>>
                ELSE <<>>
        conv == IF IsSet(self.conversation)
                THEN <<HDR_Conversation, <<>>>>
                         \o conversation_lines(self.conversation[1])
                ELSE <<>>
    IN  join(<<"\n">>, head \o lead \o conv)

----------------------------------------------------------------------------
(* apply_template_values *)

\* The backquote character.  A string literal of this module cannot hold a
\* backquote, so the character is written as a circumflex; no other text
\* here holds a circumflex.
Backquote == "^"

\* the delimiter of r"(```.*?```)"
Fence == <<Backquote, Backquote, Backquote>>

\* the positions from `from` on at which a delimiter starts
fence_at(s, from) == {i \in from..(Len(s) - 2) : SubSeq(s, i, i + 2) = Fence}

\* re.split(r"(```.*?```)", text, flags=re.DOTALL): the text before the
\* leftmost delimiter that has a later delimiter after it, the match up to
\* the nearest such delimiter, and the split of what follows
RECURSIVE re_split_fences(_)
re_split_fences(s) ==
    LET opens == {i \in fence_at(s, 1) : fence_at(s, i + 3) # {}}
    IN  IF opens = {} THEN <<s>>
        ELSE LET i == SeqMin(opens)
                 j == SeqMin(fence_at(s, i + 3))
             IN  <<SubSeq(s, 1, i - 1), SubSeq(s, i, j + 2)>>
                     \o re_split_fences(SubSeq(s, j + 3, Len(s)))

\* the number of `{` minus the number of `}` in s[i..m]
brace_depth(s, i, m) ==
    Cardinality({k \in i..m : s[k] = "{"}) - Cardinality({k \in i..m : s[k] = "}"})

\* segment.format(**template_values) from position i on, `out` being the
\* text produced so far: a doubled brace gives one brace, a single `}` or an
\* unclosed `{` is a ValueError, a replacement field runs to the brace that
\* closes it, must not hold a `{` (ValueError), must not be empty
\* (IndexError: there are no positional arguments) and is looked up in
\* template_values (KeyError)
RECURSIVE str_format(_, _, _, _)
str_format(s, template_values, i, out) ==
    IF i > Len(s) THEN [err |-> "", text |-> out]
    ELSE IF s[i] \notin {"{", "}"}
    THEN str_format(s, template_values, i + 1, Append(out, s[i]))
    ELSE IF i < Len(s) /\ s[i + 1] = s[i]
    THEN str_format(s, template_values, i + 2, Append(out, s[i]))
    ELSE IF s[i] = "}" \/ i = Len(s)
    THEN [err |-> "ValueError", text |-> out]
    ELSE LET closes == {m \in (i + 1)..Len(s) : brace_depth(s, i, m) = 0}
         IN  IF closes = {} THEN [err |-> "ValueError", text |-> out]
             ELSE LET m == SeqMin(closes)
                      field_name == SubSeq(s, i + 1, m - 1)
                  IN  IF \E k \in 1..Len(field_name) : field_name[k] = "{"
                      THEN [err |-> "ValueError", text |-> out]
                      ELSE IF field_name = <<>>
                      THEN [err |-> "IndexError", text |-> out]
                      ELSE IF field_name \notin DOMAIN template_values
                      THEN [err |-> "KeyError", text |-> out]
                      ELSE str_format(s, template_values, m + 1,
                                      out \o template_values[field_name])

\* the loop over the segments, from segment i on
RECURSIVE replace_segments(_, _, _, _)
replace_segments(segments, template_values, i, out) ==
    IF i > Len(segments) THEN [err |-> "", text |-> out]
    ELSE IF startswith(segments[i], Fence)
    THEN replace_segments(segments, template_values, i + 1, out \o segments[i])
    ELSE \* the segment is formatted; an exception leaves the function
         CHOOSE r \in {IF f.err # "" THEN f
                       ELSE replace_segments(segments, template_values, i + 1,
                                             out \o f.text) :
                           f \in {str_format(segments[i], template_values, 1, <<>>)}} :
             TRUE

\* replace_placeholders(text): the text returned, or the exception raised
replace_placeholders(t, template_values) ==
    CHOOSE r \in {replace_segments(segments, template_values, 1, <<>>) :
                      segments \in {re_split_fences(t)}} : TRUE

\* `for message in self.conversation`, from message i on: the contents are
\* assigned one by one, and an exception leaves the earlier assignments in
\* place
RECURSIVE apply_to_conversation(_, _, _)
apply_to_conversation(conversation, template_values, i) ==
    IF i > Len(conversation) THEN [err |-> "", conversation |-> conversation]
    ELSE CHOOSE r \in
             {IF f.err # "" THEN [err |-> f.err, conversation |-> conversation]
              ELSE apply_to_conversation(
                       [conversation EXCEPT ![i].content = f.text],
                       template_values, i + 1) :
                  f \in {replace_placeholders(conversation[i].content,
                                              template_values)}} : TRUE

\* the replaced text assigned to both lead messages
assign_lead_Both(self, t) ==
    [self EXCEPT !.system_message = Some(t), !.developer_message = Some(t)]

\* the assignment of the replaced lead text: to system_message when it is
\* set, else to developer_message when that is set
assign_lead(self, t) ==
    IF IsSet(self.system_message) THEN [self EXCEPT !.system_message = Some(t)]
    ELSE IF IsSet(self.developer_message) THEN [self EXCEPT !.developer_message = Some(t)]
    ELSE self

\* self.apply_template_values(template_values): the exception raised ("" for
\* none) and the fields of self when the call is left
apply_template_values(self, template_values) ==
    CHOOSE r \in
        {IF lead.err # "" THEN [err |-> lead.err, self |-> self]
         ELSE LET led == assign_lead(self, lead.text)
              IN  IF IsNone(self.conversation)
                  THEN [err |-> "", self |-> led]
                  ELSE CHOOSE q \in
                           {[err |-> c.err,
                             self |-> [led EXCEPT !.conversation = Some(c.conversation)]] :
                                c \in {apply_to_conversation(self.conversation[1],
                                                             template_values, 1)}} : TRUE :
             lead \in {IF IsSet(self.system_message)
                       THEN replace_placeholders(self.system_message[1], template_values)
                       ELSE IF IsSet(self.developer_message)
                       THEN replace_placeholders(self.developer_message[1], template_values)
                       ELSE [err |-> "", text |-> <<>>]}} : TRUE

----------------------------------------------------------------------------
(* The calls *)

Init ==
    /\ op = "start"
    /\ args = <<>>
    /\ text = <<>>
    /\ prompt = None
    /\ parsed = None
    /\ err = ""
    /\ warnings = <<>>
    /\ msg = None
    /\ eq = FALSE
    /\ messages = <<>>
    /\ response_parts = <<>>

\* Message(role=role, content=content, name=name)
NewMessage(role, content, name) ==
    LET e == Message_post_init(role)
    IN  /\ op' = "Message"
        /\ args' = [role |-> role, content |-> content, name |-> name]
        /\ err' = e
        /\ msg' = IF e = "" THEN Some(Message(role, content, name)) ELSE None
        /\ UNCHANGED <<messages, response_parts, text, prompt, parsed, warnings, eq>>

\* a == b for two Messages
MessageEq(a, b) ==
    /\ op' = "Message.__eq__"
    /\ args' = <<a, b>>
    /\ eq' = Message_eq(a, b)
    /\ err' = ""
    /\ UNCHANGED <<messages, response_parts, text, prompt, parsed, warnings, msg>>

\* StructuredPrompt(name=..., system_message=..., developer_message=...,
\* conversation=...)
NewStructuredPrompt(name, system_message, developer_message, conversation) ==
    LET e == StructuredPrompt_post_init(system_message, developer_message)
    IN  /\ op' = "StructuredPrompt"
        /\ args' = [system_message |-> system_message,
                    developer_message |-> developer_message]
        /\ err' = e
        /\ prompt' = IF e = ""
                     THEN Some(StructuredPrompt(name, system_message,
                                                developer_message, conversation))
                     ELSE None
        /\ UNCHANGED <<messages, response_parts, text, parsed, warnings, msg, eq>>

\* StructuredPrompt.from_promptdown_string(t)
FromPromptdownString(t) ==
    \E r \in {from_promptdown_string(t)} :
        /\ op' = "from_promptdown_string"
        /\ args' = <<>>
        /\ text' = t
        /\ parsed' = r.prompt
        /\ err' = r.err
        /\ warnings' = r.log
        /\ UNCHANGED <<messages, response_parts, prompt, msg, eq>>

\* prompt.to_promptdown_string()
ToPromptdownString ==
    /\ IsSet(prompt)
    /\ op' = "to_promptdown_string"
    /\ args' = <<>>
    /\ text' = to_promptdown_string(prompt[1])
    /\ err' = ""
    /\ UNCHANGED <<messages, response_parts, prompt, parsed, warnings, msg, eq>>

\* prompt.apply_template_values(template_values)
ApplyTemplateValues(template_values) ==
    /\ IsSet(prompt)
    /\ \E r \in {apply_template_values(prompt[1], template_values)} :
           /\ op' = "apply_template_values"
           /\ args' = [self |-> prompt[1], template_values |-> template_values]
           /\ err' = r.err
           /\ prompt' = Some(r.self)
           /\ UNCHANGED <<messages, response_parts, text, parsed, warnings, msg, eq>>

----------------------------------------------------------------------------
(* Messages: construction and comparison *)

RoleInputs ==
    {<<"s", "y", "s", "t", "e", "m">>,
     <<"S", "y", "s", "t", "e", "m">>,
     <<"S", "Y", "S", "T", "E", "M">>,
     <<"s", "Y", "s", "T", "e", "M">>,
     <<"d", "e", "v", "e", "l", "o", "p", "e", "r">>,
     <<"D", "e", "v", "e", "l", "o", "p", "e", "r">>,
     <<"D", "E", "V", "E", "L", "O", "P", "E", "R">>,
     <<"U", "s", "e", "r">>,
     <<"A", "s", "s", "i", "s", "t", "a", "n", "t">>,
     <<"u", "s", "e", "r">>,
     <<"s", "y", "s", "t", "e", "m", "a", "t", "i", "c">>,
     <<>>}
ContentInputs == {<<>>, <<"h", "i">>}
NameInputs == {None, Some(<<>>), Some(<<"A", "l">>)}

\* the Messages the constructor returns for these inputs
Messages ==
    {Message(r, c, n) : r \in {x \in RoleInputs : Message_post_init(x) = ""},
                        c \in ContentInputs, n \in NameInputs}

NextMessage ==
    \/ op = "start" /\ \E r \in RoleInputs, c \in ContentInputs, n \in NameInputs :
           NewMessage(r, c, n)
    \/ op = "start" /\ \E a \in Messages, b \in Messages : MessageEq(a, b)

SpecMessage == Init /\ [][NextMessage]_vars

upper_char(c) ==
    IF \E i \in 1..26 : LowerCase[i] = c
    THEN UpperCase[CHOOSE i \in 1..26 : LowerCase[i] = c]
    ELSE c

\* r spells the lower-case word w in some letter case
CaseVariant(r, w) ==
    /\ Len(r) = Len(w)
    /\ \A i \in 1..Len(w) : r[i] = w[i] \/ r[i] = upper_char(w[i])

\* C4: constructing a Message whose role is `system` or `developer` in any
\* letter case raises the reserved-role error and yields no Message;
\* constructing one with role `User` or `Assistant` succeeds and yields the
\* Message with the fields given.
C4_ReservedRoleRejected ==
    op = "Message" =>
        /\ (CaseVariant(args.role, STR_system) \/ CaseVariant(args.role, STR_developer))
               => (err = ERR_ReservedRole /\ IsNone(msg))
        /\ args.role \in {STR_User, STR_Assistant}
               => /\ err = ""
                  /\ msg = Some([role |-> args.role, content |-> args.content,
                                 name |-> args.name])

C4_Witness ==
    /\ op = "Message"
    /\ args.role = <<"S", "Y", "S", "T", "E", "M">>
    /\ err = ERR_ReservedRole

\* C5: two Messages compare equal if and only if their roles are equal
\* ignoring letter case and their content and name are exactly equal.
C5_EqualityIgnoresRoleCase ==
    op = "Message.__eq__" =>
        (eq <=> /\ lower(args[1].role) = lower(args[2].role)
                /\ args[1].content = args[2].content
                /\ args[1].name = args[2].name)

----------------------------------------------------------------------------
(* Documents: from_promptdown_string on texts assembled from fragments, and
   the StructuredPrompt constructor on each combination of lead messages *)

MaxPieces == 3

P_name == <<"#", " ", "N">>
P_name_indented == <<" ", "#", " ", " ", "M", " ">>
P_hash_only == <<"#", " ">>
P_system == <<"#", "#", " ", "S", "y", "s", "t", "e", "m", " ", "M", "e", "s", "s", "a", "g", "e", "\n", "s">>
P_developer == <<"#", "#", " ", "d", "e", "v", "e", "l", "o", "p", "e", "r", " ", "m", "e", "s", "s", "a", "g", "e", " ", "\n", " ", "d", " ">>
P_system_header == <<"#", "#", " ", "S", "y", "s", "t", "e", "m", " ", "M", "e", "s", "s", "a", "g", "e">>
P_conversation_header == <<"#", "#", " ", "C", "o", "n", "v", "e", "r", "s", "a", "t", "i", "o", "n">>
P_conversation_empty == <<"#", "#", " ", "C", "o", "n", "v", "e", "r", "s", "a", "t", "i", "o", "n", "\n">>
P_conversation_turn == <<"#", "#", " ", "C", "o", "n", "v", "e", "r", "s", "a", "t", "i", "o", "n", "\n", "*", "*", "U", "s", "e", "r", ":", "*", "*", "\n", "h", "i">>
P_blank == <<>>
P_text == <<"x">>
P_notes == <<"#", "#", " ", "N", "o", "t", "e", "s">>

Pieces ==
    {P_name,
     P_name_indented,
     P_hash_only,
     P_system,
     P_developer,
     P_system_header,
     P_conversation_header,
     P_conversation_empty,
     P_conversation_turn,
     P_blank,
     P_text,
     P_notes}

RECURSIVE SeqsUpTo(_, _)
\* the sequences over S of length at most n
SeqsUpTo(S, n) ==
    IF n = 0 THEN {<<>>}
    ELSE LET shorter == SeqsUpTo(S, n - 1)
         IN  shorter \cup {Append(q, x) : q \in {r \in shorter : Len(r) = n - 1},
                                          x \in S}

Docs == {join(<<"\n">>, q) : q \in SeqsUpTo(Pieces, MaxPieces)}

LeadInputs == {None, Some(<<>>), Some(<<"s">>)}

NextParse ==
    \/ op = "start" /\ \E t \in Docs : FromPromptdownString(t)
    \/ op = "start" /\ \E sys \in LeadInputs, dev \in LeadInputs,
                          conv \in {None, Some(<<>>)} :
           NewStructuredPrompt(<<"N">>, sys, dev, conv)

SpecParse == Init /\ [][NextParse]_vars

\* the positions of the characters of l that are not white space
Ink(l) == {k \in 1..Len(l) : l[k] \notin Whitespace}

\* line l, once trimmed, starts with `marker` (a heading marker ending in a
\* blank, so some text must follow it)
HeadingLine(l, marker) ==
    /\ Ink(l) # {}
    /\ LET i == SeqMin(Ink(l))
       IN  /\ i + Len(marker) - 1 <= Len(l)
           /\ SubSeq(l, i, i + Len(marker) - 1) = marker
           /\ \E j \in Ink(l) : j >= i + Len(marker)

\* the text of heading line l after its marker, without the blanks around it
HeadingText(l, marker) ==
    LET i == SeqMin(Ink(l))
        after == {j \in Ink(l) : j >= i + Len(marker)}
    IN  SubSeq(l, SeqMin(after), SeqMax(after))

\* the text has a `# ` heading line
HasName(t) == \E i \in 1..Len(split_lines(t)) : HeadingLine(split_lines(t)[i], HashSpace)

\* line l is a `## ` header naming section sec (letter case ignored)
SectionHeader(l, sec) ==
    HeadingLine(l, HashHashSpace) /\ lower(HeadingText(l, HashHashSpace)) = sec

\* some non-blank line that is no heading lies under a header of section sec,
\* with no other heading in between
SectionHasText(t, sec) ==
    LET ls == split_lines(t)
        heading == [k \in 1..Len(ls) |->
                        HeadingLine(ls[k], HashSpace) \/ HeadingLine(ls[k], HashHashSpace)]
        header == [k \in 1..Len(ls) |-> heading[k] /\ SectionHeader(ls[k], sec)]
    IN  \E h \in 1..Len(ls), i \in 1..Len(ls) :
            /\ h < i
            /\ header[h]
            /\ \A k \in (h + 1)..i : ~heading[k]
            /\ Ink(ls[i]) # {}

\* the verdict of from_promptdown_string on the two lead sections
LeadVerdict(t) ==
    LET s == SectionHasText(t, STR_system_message)
        d == SectionHasText(t, STR_developer_message)
    IN  /\ (~s /\ ~d) => (err = ERR_NeitherLead /\ IsNone(parsed))
        /\ (s /\ d) => (err = ERR_BothLead /\ IsNone(parsed))
        /\ (s /\ ~d) => /\ err = "" /\ IsSet(parsed)
                        /\ IsSet(parsed[1].system_message)
                        /\ IsNone(parsed[1].developer_message)
        /\ (d /\ ~s) => /\ err = "" /\ IsSet(parsed)
                        /\ IsSet(parsed[1].developer_message)
                        /\ IsNone(parsed[1].system_message)

\* the constructor rejects both lead messages set and neither set
ConstructorVerdict ==
    op = "StructuredPrompt" =>
        (IsSet(args.system_message) = IsSet(args.developer_message)
            => (err = ERR_LeadExclusivity /\ IsNone(prompt)))

\* C2 as stated: the constructor rejects both-or-neither, and parsing any
\* document fails with the missing-lead error when neither lead section has
\* text, with the conflicting-lead error when both have, and succeeds with
\* that lead set when it has a name and exactly one has text.
C2_AsStated ==
    /\ ConstructorVerdict
    /\ op = "from_promptdown_string" =>
        LET s == SectionHasText(text, STR_system_message)
            d == SectionHasText(text, STR_developer_message)
        IN  /\ (~s /\ ~d) => err = ERR_NeitherLead
            /\ (s /\ d) => err = ERR_BothLead
            /\ (HasName(text) /\ s # d) => err = ""

\* C2 (amended): the constructor rejects both lead messages set and neither
\* set; parsing a document that has a name fails with the missing-lead error
\* when neither lead section holds non-blank text, fails with the
\* conflicting-lead error when both do, and succeeds with that lead message
\* set and the other unset when exactly one does.
C2_LeadExclusivity ==
    /\ ConstructorVerdict
    /\ (op = "from_promptdown_string" /\ HasName(text)) => LeadVerdict(text)

C2_Witness ==
    /\ op = "from_promptdown_string"
    /\ HasName(text)
    /\ SectionHasText(text, STR_system_message)
    /\ SectionHasText(text, STR_developer_message)
    /\ err = ERR_BothLead

\* C3: a text with no line that starts, once trimmed, with `# ` fails with
\* the missing-name error and yields no prompt; a successful parse yields a
\* non-empty name that is the trimmed text of a `# ` heading line.
C3_NameRequired ==
    op = "from_promptdown_string" =>
        /\ ~HasName(text) => (err = ERR_NoName /\ IsNone(parsed))
        /\ err = "" =>
            /\ IsSet(parsed)
            /\ Len(parsed[1].name) > 0
            /\ \E i \in 1..Len(split_lines(text)) :
                   /\ HeadingLine(split_lines(text)[i], HashSpace)
                   /\ parsed[1].name = HeadingText(split_lines(text)[i], HashSpace)

C3_Witness ==
    /\ op = "from_promptdown_string"
    /\ err = ""
    /\ parsed[1].name = <<"M">>

\* C9: the parsed conversation is absent if and only if the document has no
\* `## Conversation` header; with the header it is present, and empty when
\* the section holds no turns.
C9_AbsentIffNoHeader ==
    (op = "from_promptdown_string" /\ err = "") =>
        (IsNone(parsed[1].conversation)
            <=> ~\E i \in 1..Len(split_lines(text)) :
                    SectionHeader(split_lines(text)[i], STR_conversation))

----------------------------------------------------------------------------
(* Conversations: from_promptdown_string on a document whose Conversation
   section is assembled from free-text lines *)

MaxConvLines == 4

CL_a == <<"a">>
CL_b == <<"b">>
CL_blank == <<>>
CL_User == <<"*", "*", "U", "s", "e", "r", ":", "*", "*">>
CL_Assistant_Bob == <<"*", "*", "A", "s", "s", "i", "s", "t", "a", "n", "t", " ", "(", "B", "o", "b", ")", ":", "*", "*">>
CL_unknown_role == <<"*", "*", "B", "o", "b", ":", "*", "*">>
CL_malformed == <<"*", "*", ":", "*", "*">>
CL_lower_user == <<"*", "*", "u", "s", "e", "r", ":", "*", "*">>

ConvLines ==
    {CL_a,
     CL_b,
     CL_blank,
     CL_User,
     CL_Assistant_Bob,
     CL_unknown_role,
     CL_malformed,
     CL_lower_user}

\* name, lead message and the Conversation header
Preamble == join(<<"\n">>, <<P_name, P_system, P_conversation_header>>)

ConvDocs == {Preamble \o <<"\n">> \o join(<<"\n">>, q) : q \in SeqsUpTo(ConvLines, MaxConvLines)}

NextConversation == op = "start" /\ \E t \in ConvDocs : FromPromptdownString(t)

SpecConversation == Init /\ [][NextConversation]_vars

\* the lines under the first `## Conversation` header of the text, trimmed
ConversationSection(t) ==
    LET ls == split_lines(t)
        h == SeqMin({k \in 1..Len(ls) : SectionHeader(ls[k], STR_conversation)})
    IN  [k \in 1..(Len(ls) - h) |-> strip(ls[h + k])]

\* rest is an optional parenthesized, non-empty name followed by `:**`
MarkerTail(rest) ==
    \/ rest = ColonStarStar
    \/ \E o \in 1..Len(rest) :
           /\ \A k \in 1..(o - 1) : rest[k] \in Whitespace
           /\ rest[o] = "("
           /\ endswith(rest, <<")">> \o ColonStarStar)
           /\ o < Len(rest) - 4
           /\ \A k \in (o + 1)..(Len(rest) - 4) : rest[k] # ")"

\* l is a role-marker line: `**role:**` or `**role (name):**`
MarkerShape(l) ==
    /\ startswith(l, StarStar)
    /\ \E e \in 3..Len(l) :
           /\ \A k \in 3..e : l[k] \in RoleChars
           /\ MarkerTail(SubSeq(l, e + 1, Len(l)))

\* l is a role-marker line for User or Assistant
ValidMarker(l) ==
    \E r \in {STR_User, STR_Assistant} :
        /\ startswith(l, StarStar \o r)
        /\ MarkerTail(SubSeq(l, Len(r) + 3, Len(l)))

\* the number of times x occurs in sequence q
Count(q, x) == Cardinality({i \in 1..Len(q) : q[i] = x})

\* the j-th smallest element of the set S of numbers
Nth(S, j) == CHOOSE k \in S : Cardinality({m \in S : m < k}) = j - 1

\* the position of the first role-marker line after line k of L (one past the
\* end when there is none)
BlockEnd(L, k) ==
    SeqMin({m \in (k + 1)..Len(L) : MarkerShape(L[m])} \cup {Len(L) + 1})

\* the valid markers of L
ValidMarkers(L) == {k \in 1..Len(L) : ValidMarker(L[k])}

\* the valid markers of L that have at least one line of their own
FilledMarkers(L) == {k \in ValidMarkers(L) : BlockEnd(L, k) > k + 1}

\* non-blank content lines precede the first valid marker of L
OrphanedBeforeFirstMarker(L) ==
    /\ ValidMarkers(L) # {}
    /\ \E i \in 1..(SeqMin(ValidMarkers(L)) - 1) : Ink(L[i]) # {} /\ ~MarkerShape(L[i])

\* the j-th Turn holds exactly the lines of the j-th marker of the set V
TurnsHoldOwnLines(L, V, turns) ==
    \A j \in 1..Len(turns) :
        LET k == Nth(V, j)
        IN  turns[j].content = strip(join(<<" ">>, SubSeq(L, k + 1, BlockEnd(L, k) - 1)))

\* C10 as stated: when non-blank content precedes the first valid marker,
\* the valid markers yield their Turns, no Turn holds the orphaned content,
\* and exactly one orphaned-content warning is logged.  Stated for sections
\* without blank lines, so that a violation does not rest on the warning
\* logged for a buffer of blank lines.
C10_AsStated ==
    (op = "from_promptdown_string" /\ err = "") =>
        LET L == ConversationSection(text)
        IN  (OrphanedBeforeFirstMarker(L) /\ \A i \in 1..Len(L) : Ink(L[i]) # {}) =>
                /\ Len(parsed[1].conversation[1]) = Cardinality(FilledMarkers(L))
                /\ TurnsHoldOwnLines(L, FilledMarkers(L), parsed[1].conversation[1])
                /\ Count(warnings, WARN_Orphaned) = 1

\* C10 (amended): when non-blank content lines precede the first valid role
\* marker, the parse returns one Turn for each valid marker that has at least
\* one line between it and the next role-marker line or the end of the
\* section, each Turn holds exactly the lines of its own marker (so the
\* orphaned content is in no Turn), and at least one orphaned-content warning
\* is logged.
C10_OrphanedContentDropped ==
    (op = "from_promptdown_string" /\ err = "") =>
        LET L == ConversationSection(text)
        IN  OrphanedBeforeFirstMarker(L) =>
                /\ Len(parsed[1].conversation[1]) = Cardinality(FilledMarkers(L))
                /\ TurnsHoldOwnLines(L, FilledMarkers(L), parsed[1].conversation[1])
                /\ Count(warnings, WARN_Orphaned) >= 1

C10_Witness ==
    /\ op = "from_promptdown_string"
    /\ err = ""
    /\ OrphanedBeforeFirstMarker(ConversationSection(text))
    /\ Len(parsed[1].conversation[1]) = 1
    /\ parsed[1].conversation[1][1].content = <<"b">>
    /\ Count(warnings, WARN_Orphaned) = 1

\* the role-marker lines of L
Markers(L) == {k \in 1..Len(L) : MarkerShape(L[k])}

\* at least one line, and only blank lines, precede the first role marker of
\* L, and every role marker of L is a valid one
OnlyBlankBeforeFirstMarker(L) ==
    /\ Markers(L) # {}
    /\ Markers(L) = ValidMarkers(L)
    /\ SeqMin(Markers(L)) > 1
    /\ \A i \in 1..(SeqMin(Markers(L)) - 1) : Ink(L[i]) = {}

\* C11: when only blank lines precede the first role marker of a Conversation
\* section, no orphaned-content warning is logged and the turns that follow
\* are parsed as usual.
C11_BlankLinesNoWarning ==
    (op = "from_promptdown_string" /\ err = "") =>
        LET L == ConversationSection(text)
        IN  OnlyBlankBeforeFirstMarker(L) =>
                /\ Count(warnings, WARN_Orphaned) = 0
                /\ Len(parsed[1].conversation[1]) = Cardinality(FilledMarkers(L))
                /\ TurnsHoldOwnLines(L, FilledMarkers(L), parsed[1].conversation[1])

\* the role of the valid marker l
MarkerRole(l) == IF startswith(l, StarStar \o STR_User) THEN STR_User ELSE STR_Assistant

\* the name of the valid marker l: the trimmed text between its parentheses,
\* absent when it has none
MarkerName(l) ==
    IF endswith(l, <<")">> \o ColonStarStar)
    THEN Some(strip(SubSeq(l, SeqMin({k \in 1..Len(l) : l[k] = "("}) + 1, Len(l) - 4)))
    ELSE None

\* C20: each Turn the conversation parser returns corresponds to one valid
\* role marker, in the order of the markers, and carries that marker's role and
\* name and, as content, the lines between that marker and the next marker
\* line (or the end of the section) joined with single spaces and trimmed; a
\* valid marker yields at most one Turn (one when it has lines of its own),
\* the last one being flushed after the final line.
C20_TurnAssembly ==
    (op = "from_promptdown_string" /\ err = "" /\ IsSet(parsed[1].conversation)) =>
        LET L == ConversationSection(text)
            V == FilledMarkers(L)
            turns == parsed[1].conversation[1]
        IN  /\ Len(turns) = Cardinality(V)
            /\ \A j \in 1..Len(turns) :
                   LET k == Nth(V, j)
                   IN  /\ turns[j].role = MarkerRole(L[k])
                       /\ turns[j].name = MarkerName(L[k])
                       /\ turns[j].content
                              = strip(join(<<" ">>, SubSeq(L, k + 1, BlockEnd(L, k) - 1)))

C20_Witness ==
    /\ op = "from_promptdown_string"
    /\ err = ""
    /\ ConversationSection(text) = <<CL_Assistant_Bob, CL_a, CL_b, CL_User>>
    /\ parsed[1].conversation[1]
           = <<Message(STR_Assistant, <<"a", " ", "b">>, Some(<<"B", "o", "b">>))>>


\* line i of L lies between a valid marker and the next role-marker line
InTurn(L, i) == \E k \in ValidMarkers(L) : k < i /\ i < BlockEnd(L, k)

\* the non-blank content lines of L that are in the lines of no Turn
DroppedLines(L) ==
    {i \in 1..Len(L) : Ink(L[i]) # {} /\ ~MarkerShape(L[i]) /\ ~InTurn(L, i)}

\* C21: the parse of a document with a name, one lead message and a
\* Conversation section never raises an error because of the lines of the
\* section, and whenever a non-blank content line of the section is in no
\* Turn, at least one warning (orphaned content, unknown role or malformed
\* role line) is logged during the parse.
C21_DropsAreWarned ==
    op = "from_promptdown_string" =>
        /\ err = ""
        /\ DroppedLines(ConversationSection(text)) # {} => Len(warnings) >= 1

\* the role-marker lines of L whose role is not User or Assistant
UnknownMarkers(L) == Markers(L) \ ValidMarkers(L)

\* C22: when a Conversation section holds role-marker lines whose role is not
\* exactly User or Assistant (user in lower case included), the parse raises
\* no error, logs one unknown-role warning for each of them, and returns one
\* Turn for each valid marker that has lines of its own, with that marker's
\* role and name and exactly the lines between it and the next role-marker
\* line; so the turn active before an unknown marker is flushed with the
\* content it had accumulated, and no line between an unknown marker and the
\* next valid marker is in any Turn.
C22_UnknownRole ==
    op = "from_promptdown_string" =>
        LET L == ConversationSection(text)
        IN  UnknownMarkers(L) # {} =>
                /\ err = ""
                /\ Count(warnings, WARN_UnknownRole) = Cardinality(UnknownMarkers(L))
                /\ Len(parsed[1].conversation[1]) = Cardinality(FilledMarkers(L))
                /\ TurnsHoldOwnLines(L, FilledMarkers(L), parsed[1].conversation[1])
                /\ \A j \in 1..Len(parsed[1].conversation[1]) :
                       LET k == Nth(FilledMarkers(L), j)
                       IN  /\ parsed[1].conversation[1][j].role = MarkerRole(L[k])
                           /\ parsed[1].conversation[1][j].name = MarkerName(L[k])

\* a User turn with content, then `**user:**` and a line that is dropped
C22_Witness ==
    /\ op = "from_promptdown_string"
    /\ err = ""
    /\ ConversationSection(text) = <<CL_User, CL_a, CL_lower_user, CL_b>>
    /\ parsed[1].conversation[1] = <<Message(STR_User, <<"a">>, None)>>
    /\ warnings = <<WARN_UnknownRole>>

\* the lines of L that start with `**` and end with `:**` and are no
\* role-marker lines
MalformedLines(L) ==
    {i \in 1..Len(L) : /\ startswith(L[i], StarStar)
                       /\ endswith(L[i], ColonStarStar)
                       /\ ~MarkerShape(L[i])}

----------------------------------------------------------------------------
(* Tables: from_promptdown_string on a document whose Conversation section is
   assembled from pipe-table rows *)

MaxTableLines == 3

TR_header == <<"|", " ", "R", "o", "l", "e", " ", "|", " ", "C", "o", "n", "t", "e", "n", "t", " ", "|">>
TR_divider == <<"|", "-", "-", "-", "|", "-", "-", "-", "|">>
TR_User == <<"|", " ", "U", "s", "e", "r", " ", "|", " ", "H", "i", " ", "|">>
TR_Assistant == <<"|", " ", "A", "s", "s", "i", "s", "t", "a", "n", "t", " ", "|", " ", "Y", "o", " ", "|">>

TableLines == {TR_header, TR_divider, TR_User, TR_Assistant, CL_blank}

TableDocs ==
    {Preamble \o <<"\n">> \o join(<<"\n">>, q) : q \in SeqsUpTo(TableLines, MaxTableLines)}

NextTable == op = "start" /\ \E t \in TableDocs : FromPromptdownString(t)

SpecTable == Init /\ [][NextTable]_vars

RECURSIVE SplitBar(_)
\* the pieces of s between its `|` characters
SplitBar(s) ==
    LET bars == {i \in 1..Len(s) : s[i] = "|"}
    IN  IF bars = {} THEN <<s>>
        ELSE <<SubSeq(s, 1, SeqMin(bars) - 1)>>
                 \o SplitBar(SubSeq(s, SeqMin(bars) + 1, Len(s)))

NonEmpty(c) == Len(c) > 0
IsRow(l) == startswith(l, <<"|">>)

\* the trimmed, non-empty cells of a table row
Cells(l) == SelectSeq([k \in 1..Len(SplitBar(l)) |-> strip(SplitBar(l)[k])], NonEmpty)

\* a row made only of dashes
IsDivider(l) == \A k \in 1..Len(Cells(l)) : \A i \in 1..Len(Cells(l)[k]) : Cells(l)[k][i] = "-"

\* the cell of row l under the header named h, <<>> when there is none
Cell(headers, l, h) ==
    IF \E k \in 1..Len(headers) : lower(headers[k]) = h /\ k <= Len(Cells(l))
    THEN Cells(l)[CHOOSE k \in 1..Len(headers) : lower(headers[k]) = h]
    ELSE <<>>

\* the row names a column h
HasColumn(l, h) == \E k \in 1..Len(Cells(l)) : lower(Cells(l)[k]) = h

STR_role == <<"r","o","l","e">>
STR_content == <<"c","o","n","t","e","n","t">>

\* C6: when the first non-blank line of the Conversation section starts with
\* `|`, the first row gives the headers (here: a Role and a Content column),
\* a row of dashes is skipped, and every other row yields one Turn, in row
\* order, with the row's trimmed role and content cells: k data rows give k
\* Turns.
C6_TableRowsBecomeTurns ==
    (op = "from_promptdown_string" /\ err = "") =>
        LET L == ConversationSection(text)
            inked == {k \in 1..Len(L) : Ink(L[k]) # {}}
            rows == SelectSeq(L, IsRow)
            data == SelectSeq(Tail(rows), LAMBDA l : ~IsDivider(l))
            turns == parsed[1].conversation[1]
        IN  (/\ inked # {}
             /\ IsRow(L[SeqMin(inked)])
             /\ HasColumn(rows[1], STR_role)
             /\ HasColumn(rows[1], STR_content)) =>
                /\ Len(turns) = Len(data)
                /\ \A j \in 1..Len(data) :
                       /\ turns[j].role = Cell(Cells(rows[1]), data[j], STR_role)
                       /\ turns[j].content = Cell(Cells(rows[1]), data[j], STR_content)

----------------------------------------------------------------------------
(* Sections: from_promptdown_string on a document whose lines follow a name
   and a System Message section *)

MaxSectionLines == 4

SL_a == <<"a">>
SL_b_padded == <<" ", "b", " ">>
SL_blank == <<" ">>
SL_name == <<"#", " ", "M">>
SL_system_lower == <<"#", "#", " ", "s", "y", "s", "t", "e", "m", " ", "m", "e", "s", "s", "a", "g", "e">>
SL_notes == <<"#", "#", " ", "N", "o", "t", "e", "s">>

SectionLines ==
    {SL_a,
     SL_b_padded,
     SL_blank,
     SL_name,
     SL_system_lower,
     SL_notes,
     HDR_Conversation,
     CL_User}

\* name, the System Message header and one line of text
SectionPreamble == join(<<"\n">>, <<P_name, P_system>>)

SectionDocs ==
    {SectionPreamble \o <<"\n">> \o join(<<"\n">>, q) :
         q \in SeqsUpTo(SectionLines, MaxSectionLines)}

NextSections == op = "start" /\ \E t \in SectionDocs : FromPromptdownString(t)

SpecSections == Init /\ [][NextSections]_vars

\* line l is a `# ` or a `## ` heading line
IsHeading(l) == HeadingLine(l, HashSpace) \/ HeadingLine(l, HashHashSpace)

\* the section that line i of ls is attributed to: the name, in lower case, of
\* the most recent `## ` header when no `# ` line lies in between; none for a
\* heading line and for a line that follows no such header
AttributedSection(ls, i) ==
    LET hs == {k \in 1..(i - 1) : IsHeading(ls[k])}
    IN  IF IsHeading(ls[i]) \/ hs = {} THEN None
        ELSE IF HeadingLine(ls[SeqMax(hs)], HashHashSpace)
        THEN Some(lower(HeadingText(ls[SeqMax(hs)], HashHashSpace)))
        ELSE None

\* line l without the white space around it
Trimmed(l) == IF Ink(l) = {} THEN <<>> ELSE SubSeq(l, SeqMin(Ink(l)), SeqMax(Ink(l)))

\* the non-blank lines of ls attributed to section sec, trimmed, from line i on
RECURSIVE LinesUnder(_, _, _)
LinesUnder(ls, sec, i) ==
    IF i > Len(ls) THEN <<>>
    ELSE (IF AttributedSection(ls, i) = Some(sec) /\ Ink(ls[i]) # {}
          THEN <<Trimmed(ls[i])>> ELSE <<>>) \o LinesUnder(ls, sec, i + 1)

\* the lead message text of prompt p and the name of its section
LeadOf(p) ==
    IF IsSet(p.system_message)
    THEN [text |-> p.system_message[1], section |-> STR_system_message]
    ELSE [text |-> p.developer_message[1], section |-> STR_developer_message]

\* C24: the lead message text of a parsed prompt is the non-blank lines under
\* the headers of its lead section (letter case of the header ignored), each
\* trimmed, in document order, joined with single newlines; so no line of the
\* lead text is empty and none starts or ends with white space.
C24_LeadTextAssembly ==
    (op = "from_promptdown_string" /\ err = "") =>
        LET lead == LeadOf(parsed[1])
            ls == split_lines(lead.text)
        IN  /\ lead.text = join(<<"\n">>, LinesUnder(split_lines(text), lead.section, 1))
            /\ \A k \in 1..Len(ls) :
                   /\ Len(ls[k]) > 0
                   /\ ls[k][1] \notin Whitespace
                   /\ ls[k][Len(ls[k])] \notin Whitespace

\* a blank line and a padded line inside the section, and a line under a
\* second header of the section
C24_Witness ==
    /\ op = "from_promptdown_string"
    /\ err = ""
    /\ text = SectionPreamble \o <<"\n">>
                  \o join(<<"\n">>, <<SL_blank, SL_b_padded, SL_system_lower, SL_a>>)
    /\ parsed[1].system_message = Some(<<"s", "\n", "b", "\n", "a">>)

\* the lines of ls attributed to section sec, trimmed, blank ones included,
\* from line i on
RECURSIVE AttributedLines(_, _, _)
AttributedLines(ls, sec, i) ==
    IF i > Len(ls) THEN <<>>
    ELSE (IF AttributedSection(ls, i) = Some(sec) THEN <<Trimmed(ls[i])>> ELSE <<>>)
             \o AttributedLines(ls, sec, i + 1)

\* the `# ` heading lines of ls
NameLines(ls) == {k \in 1..Len(ls) : HeadingLine(ls[k], HashSpace)}

\* C25: parsing a document that has a name and lead text raises no error,
\* however many `# ` lines it holds; the name is the text of the last `# `
\* line; the lead text is made of the lines attributed to the lead section
\* and the conversation of the lines attributed to the Conversation section
\* (absent when there are none), a line being attributed to the section of
\* the most recent `## ` header since the most recent `# ` line; so a line
\* after a `# ` line or under another header is in neither.
C25_SectionScanner ==
    op = "from_promptdown_string" =>
        LET ls == split_lines(text)
            L == AttributedLines(ls, STR_conversation, 1)
        IN  /\ err = ""
            /\ parsed[1].name = HeadingText(ls[SeqMax(NameLines(ls))], HashSpace)
            /\ LeadOf(parsed[1]).text
                   = join(<<"\n">>, LinesUnder(ls, LeadOf(parsed[1]).section, 1))
            /\ IsNone(parsed[1].conversation) <=> Len(L) = 0
            /\ IsSet(parsed[1].conversation) =>
                   /\ Len(parsed[1].conversation[1]) = Cardinality(FilledMarkers(L))
                   /\ TurnsHoldOwnLines(L, FilledMarkers(L), parsed[1].conversation[1])

\* a second `# ` line inside the Conversation section: the name is the later
\* one, and the line after it is in no turn
C25_Witness ==
    /\ op = "from_promptdown_string"
    /\ err = ""
    /\ text = SectionPreamble \o <<"\n">>
                  \o join(<<"\n">>, <<HDR_Conversation, CL_User, SL_name, SL_a>>)
    /\ parsed[1] = StructuredPrompt(<<"M">>, Some(<<"s">>), None, Some(<<>>))

----------------------------------------------------------------------------
(* Serialization, and parsing what was serialized *)

MaxTurns == 2

TurnRoles == {STR_User, <<"B", "o", "b">>}
TurnNames == {None, Some(<<"A", "l">>), Some(<<>>)}
TurnContents == {<<"h", "i">>, <<"a", "\n", "b">>, <<"*", "*", "x">>}
LeadTexts == {<<"s">>, <<"a", "\n", "b">>}

Turns == {Message(r, c, n) : r \in TurnRoles, c \in TurnContents, n \in TurnNames}

Conversations == {None} \cup {Some(q) : q \in SeqsUpTo(Turns, MaxTurns)}

Leads ==
    {<<None, None>>}
        \cup {<<Some(t), None>> : t \in LeadTexts}
        \cup {<<None, Some(t)>> : t \in LeadTexts}

Next ==
    \/ op = "start" /\ \E l \in Leads, c \in Conversations :
           NewStructuredPrompt(<<"N">>, l[1], l[2], c)
    \/ op = "StructuredPrompt" /\ ToPromptdownString
    \/ op = "to_promptdown_string" /\ FromPromptdownString(text)

Spec == Init /\ [][Next]_vars

\* t has no `**` at the start of a line.  (The other excluded texts, those
\* with a line of exactly three backquotes, do not occur: no text here
\* holds a backquote.)
PlainText(t) ==
    \A l \in {split_lines(t)[k] : k \in 1..Len(split_lines(t))} :
        ~startswith(l, StarStar)

\* every text of the prompt p is plain
PlainPrompt(p) ==
    /\ PlainText(p.name)
    /\ IsSet(p.system_message) => PlainText(p.system_message[1])
    /\ IsSet(p.developer_message) => PlainText(p.developer_message[1])
    /\ IsSet(p.conversation) =>
           \A j \in 1..Len(p.conversation[1]) :
               LET t == p.conversation[1][j]
               IN  /\ PlainText(t.role)
                   /\ PlainText(t.content)
                   /\ IsSet(t.name) => PlainText(t.name[1])

\* C1: for every Prompt whose texts are plain, parsing its serialization
\* succeeds and returns an equal Prompt: same name, same lead role and text,
\* same conversation (absent stays absent; every Turn's role, name and
\* content in order).
C1_RoundTrip ==
    (op = "from_promptdown_string" /\ IsSet(prompt) /\ PlainPrompt(prompt[1])) =>
        /\ err = ""
        /\ IsSet(parsed)
        /\ parsed[1] = prompt[1]

\* the marker of a Turn: the name in parentheses if the name is set
marker_as_stated(t) ==
    IF IsSet(t.name)
    THEN StarStar \o t.role \o <<" ", "(">> \o t.name[1] \o <<")">> \o ColonStarStar
    ELSE StarStar \o t.role \o ColonStarStar

RECURSIVE blocks_as_stated(_)
blocks_as_stated(q) ==
    IF Len(q) = 0 THEN <<>>
    ELSE <<marker_as_stated(q[1]), q[1].content, <<>>>> \o blocks_as_stated(Tail(q))

\* C7: the serialization is exactly `# {name}`, a blank line, the lead header,
\* the lead text, a blank line; nothing more when the conversation is absent;
\* when present `## Conversation`, a blank line and, per Turn in order, the
\* marker `**{role} ({name}):**` if the name is set else `**{role}:**`, the
\* content, a blank line; all joined by newline.
C7_SerializedLines ==
    (op = "to_promptdown_string") =>
        LET p == prompt[1]
            lead == IF IsSet(p.system_message)
                    THEN <<HDR_System_Message, p.system_message[1], <<>>>>
                    ELSE <<HDR_Developer_Message, p.developer_message[1], <<>>>>
            conv == IF IsSet(p.conversation)
                    THEN <<HDR_Conversation, <<>>>> \o blocks_as_stated(p.conversation[1])
                    ELSE <<>>
        IN  text = join(<<"\n">>, <<HashSpace \o p.name, <<>>>> \o lead \o conv)

ROW_Role_Content == <<"|", " ", "R", "o", "l", "e", " ", "|", " ", "C", "o", "n", "t", "e", "n", "t", " ", "|">>
ROW_Role_Name_Content == <<"|", " ", "R", "o", "l", "e", " ", "|", " ", "N", "a", "m", "e", " ", "|", " ", "C", "o", "n", "t", "e", "n", "t", " ", "|">>
ROW_divider_2 == <<"|", " ", "-", "-", "-", " ", "|", " ", "-", "-", "-", " ", "|">>
ROW_divider_3 == <<"|", " ", "-", "-", "-", " ", "|", " ", "-", "-", "-", " ", "|", " ", "-", "-", "-", " ", "|">>

\* the table row `| a | b |` or `| a | b | c |`
row(cells) ==
    <<"|">> \o join(<<"|">>, [k \in 1..Len(cells) |-> <<" ">> \o cells[k] \o <<" ">>])
        \o <<"|">>

\* C8: a present conversation is rendered as a pipe table after the
\* `## Conversation` header and a blank line: the header row `| Role | Content |`
\* (with a Name column iff some Turn has a name), a divider row of `---` cells,
\* then one row per Turn in order, the last row ending the output.
C8_ConversationTable ==
    (op = "to_promptdown_string" /\ IsSet(prompt[1].conversation)) =>
        LET q == prompt[1].conversation[1]
            L == split_lines(text)
            named == \E j \in 1..Len(q) : Truthy(q[j].name)
            unnamed == \A j \in 1..Len(q) : IsNone(q[j].name)
            at == {k \in 1..Len(L) : L[k] = HDR_Conversation}
            h == SeqMin(at)
            single == \A j \in 1..Len(q) : Len(split_lines(q[j].content)) = 1
        IN  /\ at # {}
            /\ Len(L) >= h + 3
            /\ L[h + 1] = <<>>
            /\ named => L[h + 2] = ROW_Role_Name_Content /\ L[h + 3] = ROW_divider_3
            /\ unnamed => L[h + 2] = ROW_Role_Content /\ L[h + 3] = ROW_divider_2
            /\ single =>
                   /\ Len(L) = h + 3 + Len(q)
                   /\ \A j \in 1..Len(q) :
                          /\ unnamed => L[h + 3 + j] = row(<<q[j].role, q[j].content>>)
                          /\ Truthy(q[j].name) =>
                                 L[h + 3 + j] = row(<<q[j].role, q[j].name[1], q[j].content>>)

----------------------------------------------------------------------------
(* Normal form: parsing a document, serializing the prompt returned and
   parsing the text again *)

MaxNormalLines == 3

CL_empty_name == <<"*", "*", "U", "s", "e", "r", " ", "(", " ", ")", ":", "*", "*">>
CL_hash == <<"#">>

NormalLines ==
    {CL_a,
     CL_blank,
     CL_User,
     CL_Assistant_Bob,
     CL_unknown_role,
     CL_malformed,
     CL_empty_name,
     CL_hash}

NormalDocs ==
    {Preamble \o <<"\n">> \o join(<<"\n">>, q) : q \in SeqsUpTo(NormalLines, MaxNormalLines)}
        \cup {join(<<"\n">>, <<P_name, P_developer>>)}

\* p = StructuredPrompt.from_promptdown_string(t); p.to_promptdown_string():
\* the prompt returned by the parser is the one serialized
SerializeParsed ==
    /\ IsSet(parsed)
    /\ op' = "to_promptdown_string"
    /\ args' = <<>>
    /\ prompt' = parsed
    /\ text' = to_promptdown_string(parsed[1])
    /\ err' = ""
    /\ UNCHANGED <<messages, response_parts, parsed, warnings, msg, eq>>

NextNormal ==
    \/ op = "start" /\ \E t \in NormalDocs : FromPromptdownString(t)
    \/ op = "from_promptdown_string" /\ IsNone(prompt) /\ SerializeParsed
    \/ op = "to_promptdown_string" /\ FromPromptdownString(text)

SpecNormal == Init /\ [][NextNormal]_vars

\* C29: when a text was parsed successfully, serializing the prompt returned
\* and parsing the serialization succeeds and returns an equal prompt: same
\* name, same lead message, a conversation that is absent or empty as before,
\* and Turns with the same roles, names (absent or empty as before) and
\* contents.
C29_NormalFormStable ==
    (op = "from_promptdown_string" /\ IsSet(prompt)) =>
        /\ err = ""
        /\ IsSet(parsed)
        /\ StructuredPrompt_eq(parsed[1], prompt[1])

----------------------------------------------------------------------------
(* Templates: apply_template_values on constructed prompts *)

MaxTextPieces == 3

TP_a == <<"a">>
TP_k == <<"{", "k", "}">>
TP_kk == <<"{", "{", "k", "}", "}">>
TP_j == <<"{", "j", "}">>

TextPieces == {TP_a, TP_k, TP_kk, TP_j, Fence}

\* the texts assembled from at most MaxTextPieces pieces
TemplateTexts == {join(<<>>, q) : q \in SeqsUpTo(TextPieces, MaxTextPieces)}

\* the contents of the Turns
TurnTexts == {TP_a, TP_k, TP_kk, TP_j, Fence \o TP_k \o Fence}

\* template_values: {}, {"k": "V"}, {"k": "V", "j": "W"}
TemplateValues ==
    {<<>>,
     [key \in {<<"k">>} |-> <<"V">>],
     [key \in {<<"k">>, <<"j">>} |-> IF key = <<"k">> THEN <<"V">> ELSE <<"W">>]}

TemplatePrompts ==
    {StructuredPrompt(<<"N">>, Some(t), None, None) : t \in TemplateTexts}
        \cup {StructuredPrompt(<<"N">>, None, Some(t), Some(q)) :
                  t \in {TP_a, TP_k},
                  q \in SeqsUpTo({Message(STR_User, c, None) : c \in TurnTexts}, MaxTurns)}

NextTemplate ==
    \/ op = "start" /\ \E p \in TemplatePrompts :
           NewStructuredPrompt(p.name, p.system_message, p.developer_message,
                               p.conversation)
    \/ op \in {"StructuredPrompt", "apply_template_values"}
           /\ \E v \in TemplateValues : ApplyTemplateValues(v)

SpecTemplate == Init /\ [][NextTemplate]_vars

\* the positions of the braces of t
Braces(t) == {i \in 1..Len(t) : t[i] \in {"{", "}"}}

\* the braces of t form placeholders only, each one a key of v between w
\* opening and w closing braces
RECURSIVE PlaceholdersOnly(_, _, _)
PlaceholdersOnly(t, v, w) ==
    Braces(t) = {} \/
        LET i == SeqMin(Braces(t))
            closing == {j \in Braces(t) : t[j] = "}"}
            j == SeqMin(closing)
        IN  /\ closing # {}
            /\ j + w - 1 <= Len(t)
            /\ \A k \in 0..(w - 1) : t[i + k] = "{" /\ t[j + k] = "}"
            /\ SubSeq(t, i + w, j - 1) \in DOMAIN v
            /\ PlaceholdersOnly(SubSeq(t, j + w, Len(t)), v, w)

\* t with each placeholder replaced by the value of its key
RECURSIVE Substituted(_, _, _)
Substituted(t, v, w) ==
    IF Braces(t) = {} THEN t
    ELSE LET i == SeqMin(Braces(t))
             j == SeqMin({m \in Braces(t) : t[m] = "}"})
         IN  SubSeq(t, 1, i - 1) \o v[SubSeq(t, i + w, j - 1)]
                 \o Substituted(SubSeq(t, j + w, Len(t)), v, w)

\* the fenced regions of t from position `from` on, as pairs of first and
\* last position: a region runs from three backquotes to the nearest three
\* backquotes after them
RECURSIVE FencedRegions(_, _)
FencedRegions(t, from) ==
    LET opening == {i \in from..(Len(t) - 2) : SubSeq(t, i, i + 2) = Fence}
        i == SeqMin(opening)
        closing == {j \in (i + 3)..(Len(t) - 2) : SubSeq(t, j, j + 2) = Fence}
        j == SeqMin(closing)
    IN  IF opening = {} THEN <<>>
        ELSE IF closing = {} THEN <<>>
        ELSE <<<<i, j + 2>>>> \o FencedRegions(t, j + 3)

\* the texts of t outside its fenced regions, in order
Outside(t) ==
    LET R == FencedRegions(t, 1)
    IN  [n \in 1..(Len(R) + 1) |->
            SubSeq(t, IF n = 1 THEN 1 ELSE R[n - 1][2] + 1,
                      IF n > Len(R) THEN Len(t) ELSE R[n][1] - 1)]

\* t with its fenced regions kept and, outside them, each `{key}` replaced by
\* the value of key
RECURSIVE FencesKept(_, _, _, _)
FencesKept(t, v, R, n) ==
    IF n > Len(R) + 1 THEN <<>>
    ELSE Substituted(Outside(t)[n], v, 1)
             \o (IF n > Len(R) THEN <<>> ELSE SubSeq(t, R[n][1], R[n][2]))
             \o FencesKept(t, v, R, n + 1)

\* the texts of prompt p: the lead message and the content of each Turn
TextsOf(p) ==
    <<IF IsSet(p.system_message) THEN p.system_message[1] ELSE p.developer_message[1]>>
        \o (IF IsSet(p.conversation)
            THEN [n \in 1..Len(p.conversation[1]) |-> p.conversation[1][n].content]
            ELSE <<>>)

\* C12: apply_template_values leaves every fenced region of the lead message
\* and of each Turn's content as it is, and replaces every `{key}` placeholder
\* outside the fenced regions by values[key].  Stated for prompts whose
\* braces outside the fenced regions form `{key}` placeholders only, with
\* keys the values have.
C12_FencesKept ==
    (op = "apply_template_values") =>
        LET before == TextsOf(args.self)
            after == TextsOf(prompt[1])
            v == args.template_values
        IN  (\A n \in 1..Len(before) :
                 \A m \in 1..Len(Outside(before[n])) :
                     PlaceholdersOnly(Outside(before[n])[m], v, 1)) =>
                /\ err = ""
                /\ \A n \in 1..Len(before) :
                       after[n] = FencesKept(before[n], v, FencedRegions(before[n], 1), 1)

\* C13: apply_template_values replaces every double-braced placeholder
\* `{{key}}` of the lead message and of each Turn's content by values[key] and
\* leaves no braces behind.  Stated for prompts without backquotes whose
\* braces form `{{key}}` placeholders only, with keys the values have.
C13_DoubleBraces ==
    (op = "apply_template_values") =>
        LET before == TextsOf(args.self)
            after == TextsOf(prompt[1])
            v == args.template_values
        IN  (\A n \in 1..Len(before) :
                 /\ \A k \in 1..Len(before[n]) : before[n][k] # Backquote
                 /\ PlaceholdersOnly(before[n], v, 2)) =>
                /\ err = ""
                /\ \A n \in 1..Len(before) :
                       /\ after[n] = Substituted(before[n], v, 2)
                       /\ Braces(after[n]) = {}


\* C27: when apply_template_values fails because a placeholder refers to a
\* key that template_values does not hold, the prompt is left as it was before
\* the call: its lead message text and the content of every Turn are
\* unchanged.
C27_FailureAtomicity ==
    (op = "apply_template_values" /\ err = "KeyError") => prompt[1] = args.self

\* prompt q has the name of prompt p, the same lead message set and the other
\* one unset, a conversation exactly when p has one, and as many Turns with
\* the same roles and names in the same order
SameFrame(p, q) ==
    /\ q.name = p.name
    /\ IsSet(q.system_message) <=> IsSet(p.system_message)
    /\ IsSet(q.developer_message) <=> IsSet(p.developer_message)
    /\ IsSet(q.system_message) # IsSet(q.developer_message)
    /\ IsSet(q.conversation) <=> IsSet(p.conversation)
    /\ IsSet(p.conversation) =>
           /\ Len(q.conversation[1]) = Len(p.conversation[1])
           /\ \A i \in 1..Len(p.conversation[1]) :
                  /\ q.conversation[1][i].role = p.conversation[1][i].role
                  /\ q.conversation[1][i].name = p.conversation[1][i].name

\* C28: every call of apply_template_values, whether it returns or raises,
\* leaves the name of the prompt, which lead message is set (the other stays
\* unset), whether it has a conversation, and the number, order, roles and
\* names of its Turns as they were; so they are unchanged after any sequence
\* of calls, and only the lead text and the Turn contents may differ.
C28_TemplateFrame ==
    [][op' = "apply_template_values" => SameFrame(prompt[1], prompt'[1])]_vars

\* the second of two calls in a row: the first one turned the lead text
\* `{k}{{k}}` into `V{k}`, the second one turns it into `VV`
C28_Witness ==
    /\ op = "apply_template_values"
    /\ err = ""
    /\ args.self.system_message = Some(<<"V", "{", "k", "}">>)
    /\ prompt[1].system_message = Some(<<"V", "V">>)
    /\ SameFrame(args.self, prompt[1])
----------------------------------------------------------------------------
(* Python objects: the values a message content or a role can be *)

STR_name == <<"n", "a", "m", "e">>
STR_type == <<"t", "y", "p", "e">>
STR_text == <<"t", "e", "x", "t">>
STR_input_text == <<"i", "n", "p", "u", "t", "_", "t", "e", "x", "t">>
STR_user == <<"u", "s", "e", "r">>
STR_None == <<"N", "o", "n", "e">>

\* None, a str, an int, a list, and a dict as the sequence of its items
\* (key, value) in insertion order, the keys being str
PyNone == [t |-> "NoneType", v |-> <<>>]
PyStr(s) == [t |-> "str", v |-> s]
PyInt(n) == [t |-> "int", v |-> n]
PyList(q) == [t |-> "list", v |-> q]
PyDict(items) == [t |-> "dict", v |-> items]

\* key in d
dict_contains(d, key) == \E k \in 1..Len(d.v) : d.v[k][1] = key

\* d.get(key, default)
dict_get(d, key, default) ==
    IF dict_contains(d, key)
    THEN d.v[CHOOSE k \in 1..Len(d.v) : d.v[k][1] = key][2]
    ELSE default

DigitChars == <<"0", "1", "2", "3", "4", "5", "6", "7", "8", "9">>

\* str(n) for an int 0 <= n <= 99
int_str(n) ==
    IF n < 10 THEN <<DigitChars[n + 1]>>
    ELSE <<DigitChars[(n \div 10) + 1], DigitChars[(n % 10) + 1]>>

\* repr(x); the str here hold neither quotes nor backslashes, so repr(str)
\* is the str between apostrophes
RECURSIVE py_repr(_)
py_repr(x) ==
    IF x.t = "NoneType" THEN STR_None
    ELSE IF x.t = "str" THEN <<"'">> \o x.v \o <<"'">>
    ELSE IF x.t = "int" THEN int_str(x.v)
    ELSE IF x.t = "list"
    THEN <<"[">> \o join(<<",", " ">>, [k \in 1..Len(x.v) |-> py_repr(x.v[k])])
             \o <<"]">>
    ELSE <<"{">>
             \o join(<<",", " ">>,
                     [k \in 1..Len(x.v) |->
                         py_repr(PyStr(x.v[k][1])) \o <<":", " ">> \o py_repr(x.v[k][2])])
             \o <<"}">>

\* str(x)
py_str(x) == IF x.t = "str" THEN x.v ELSE py_repr(x)

\* str.replace(old, new)
RECURSIVE str_replace(_, _, _)
str_replace(s, old, new) ==
    LET at == {i \in 1..(Len(s) - Len(old) + 1) : SubSeq(s, i, i + Len(old) - 1) = old}
    IN  IF at = {} THEN s
        ELSE SubSeq(s, 1, SeqMin(at) - 1) \o new
                 \o str_replace(SubSeq(s, SeqMin(at) + Len(old), Len(s)), old, new)

----------------------------------------------------------------------------
(* converters.py *)

\* {"type": "input_text", "text": text}
input_text_part(t) ==
    PyDict(<<<<STR_type, PyStr(STR_input_text)>>, <<STR_text, PyStr(t)>>>>)

\* "" if text_value is None else str(text_value)
text_of(text_value) == IF text_value.t = "NoneType" THEN <<>> ELSE py_str(text_value)

\* the element appended when a dict of type text is not recognised and is
\* stringified whole, as a mutation would do it
coerce_part_TextDictWhole(part) ==
    IF part.t = "dict"
          /\ dict_get(part, STR_type, PyNone) = PyStr(STR_input_text)
          /\ dict_contains(part, STR_text)
    THEN input_text_part(text_of(dict_get(part, STR_text, PyNone)))
    ELSE input_text_part(py_str(part))

\* the element of `normalized` appended for one part of the list
coerce_part(part) ==
    IF part.t = "dict"
    THEN IF dict_get(part, STR_type, PyNone) = PyStr(STR_input_text)
            /\ dict_contains(part, STR_text)
         THEN input_text_part(text_of(dict_get(part, STR_text, PyNone)))
         ELSE IF dict_get(part, STR_type, PyNone) = PyStr(STR_text)
                 /\ dict_contains(part, STR_text)
         THEN input_text_part(text_of(dict_get(part, STR_text, PyNone)))
         ELSE input_text_part(py_str(part))
    ELSE input_text_part(py_str(part))

\* the list returned when no part was appended, as a mutation would return it
empty_parts_Kept == <<>>

\* the list returned when `normalized` is empty
empty_parts == <<input_text_part(<<>>)>>

\* coerce_to_response_parts(value)
coerce_to_response_parts(value) ==
    IF value.t = "list"
    THEN LET normalized == [k \in 1..Len(value.v) |-> coerce_part(value.v[k])]
         IN  IF Len(normalized) > 0 THEN normalized ELSE empty_parts
    ELSE <<input_text_part(text_of(value))>>

\* normalize_role with the exact role compared, as a mutation would do it
normalize_role_Exact(raw_role, map_system_to_developer) ==
    LET role_value == lower(py_str(IF raw_role.t # "NoneType" THEN raw_role
                                   ELSE PyStr(STR_user)))
    IN  IF map_system_to_developer /\ role_value = STR_system
        THEN STR_developer ELSE role_value

\* normalize_role(raw_role)
normalize_role(raw_role, map_system_to_developer) ==
    LET role_value == lower(py_str(IF raw_role.t # "NoneType" THEN raw_role
                                   ELSE PyStr(STR_user)))
    IN  IF map_system_to_developer
        THEN str_replace(role_value, STR_system, STR_developer)
        ELSE role_value

\* {"role": role, "content": parts}
responses_message(role, content) ==
    PyDict(<<<<STR_role, PyStr(role)>>, <<STR_content, PyList(content)>>>>)

\* convert_chat_messages_to_responses_input(messages, map_system_to_developer)
convert_chat_messages_to_responses_input(ms, map_system_to_developer) ==
    [k \in 1..Len(ms) |->
        responses_message(
            normalize_role(dict_get(ms[k], STR_role, PyStr(STR_user)),
                           map_system_to_developer),
            coerce_to_response_parts(dict_get(ms[k], STR_content, PyNone)))]

----------------------------------------------------------------------------
(* StructuredPrompt: the conversions to message lists *)

\* the message appended for one Message of the conversation
chat_completion_message(message) ==
    LET content == PyList(<<PyDict(<<<<STR_type, PyStr(STR_text)>>,
                                     <<STR_text, PyStr(message.content)>>>>)>>)
        m == <<<<STR_role, PyStr(lower(message.role))>>, <<STR_content, content>>>>
    IN  PyDict(IF Truthy(message.name)
               THEN Append(m, <<STR_name, PyStr(message.name[1])>>)
               ELSE m)

\* self.to_chat_completion_messages()
to_chat_completion_messages(self) ==
    (IF IsSet(self.system_message)
     THEN <<PyDict(<<<<STR_role, PyStr(STR_system)>>,
                     <<STR_content, PyStr(self.system_message[1])>>>>)>>
     ELSE IF IsSet(self.developer_message)
     THEN <<PyDict(<<<<STR_role, PyStr(STR_developer)>>,
                     <<STR_content, PyStr(self.developer_message[1])>>>>)>>
     ELSE <<>>)
        \o (IF IsSet(self.conversation)
            THEN [k \in 1..Len(self.conversation[1]) |->
                     chat_completion_message(self.conversation[1][k])]
            ELSE <<>>)

\* the element of `parts` appended for one part of the list
method_coerce_part(part) ==
    IF part.t = "dict"
    THEN IF dict_get(part, STR_type, PyNone) = PyStr(STR_input_text)
            /\ dict_contains(part, STR_text)
         THEN input_text_part(text_of(dict_get(part, STR_text, PyNone)))
         ELSE input_text_part(py_str(part))
    ELSE input_text_part(py_str(part))

\* self._coerce_to_response_parts(value)
method_coerce_to_response_parts(value) ==
    IF value.t = "list"
    THEN LET ps == [k \in 1..Len(value.v) |-> method_coerce_part(value.v[k])]
         IN  IF Len(ps) > 0 THEN ps ELSE <<input_text_part(<<>>)>>
    ELSE <<input_text_part(text_of(value))>>

\* head_role with the flag ignored, as a mutation would compute it
head_role_Unmapped(self, map_system_to_developer) ==
    IF IsSet(self.system_message) THEN STR_system ELSE STR_developer

\* head_role
head_role(self, map_system_to_developer) ==
    LET declared == IF IsSet(self.system_message) THEN STR_system ELSE STR_developer
    IN  IF map_system_to_developer /\ declared = STR_system
        THEN STR_developer ELSE declared

\* the message appended for one Message of the conversation
responses_turn(message, map_system_to_developer) ==
    LET role == lower(message.role)
    IN  responses_message(
            IF map_system_to_developer /\ role = STR_system THEN STR_developer ELSE role,
            method_coerce_to_response_parts(PyStr(message.content)))

\* self.to_responses_input(map_system_to_developer)
to_responses_input(self, map_system_to_developer) ==
    LET head_text == IF IsSet(self.system_message) THEN PyStr(self.system_message[1])
                     ELSE IF IsSet(self.developer_message)
                     THEN PyStr(self.developer_message[1])
                     ELSE PyNone
    IN  <<responses_message(head_role(self, map_system_to_developer),
                            method_coerce_to_response_parts(head_text))>>
            \o (IF IsSet(self.conversation)
                THEN [k \in 1..Len(self.conversation[1]) |->
                         responses_turn(self.conversation[1][k], map_system_to_developer)]
                ELSE <<>>)

\* prompt.to_chat_completion_messages()
ToChatCompletionMessages ==
    /\ IsSet(prompt)
    /\ op' = "to_chat_completion_messages"
    /\ args' = <<>>
    /\ err' = ""
    /\ messages' = to_chat_completion_messages(prompt[1])
    /\ UNCHANGED <<text, prompt, parsed, warnings, msg, eq, response_parts>>

\* prompt.to_responses_input(map_system_to_developer)
ToResponsesInput(map_system_to_developer) ==
    /\ IsSet(prompt)
    /\ op' = "to_responses_input"
    /\ args' = [map_system_to_developer |-> map_system_to_developer]
    /\ err' = ""
    /\ messages' = to_responses_input(prompt[1], map_system_to_developer)
    /\ UNCHANGED <<text, prompt, parsed, warnings, msg, eq, response_parts>>

\* convert_chat_messages_to_responses_input(ms, map_system_to_developer)
ConvertChatMessagesToResponsesInput(ms, map_system_to_developer) ==
    /\ op' = "convert_chat_messages_to_responses_input"
    /\ args' = [messages |-> ms, map_system_to_developer |-> map_system_to_developer]
    /\ err' = ""
    /\ messages' = convert_chat_messages_to_responses_input(ms, map_system_to_developer)
    /\ UNCHANGED <<text, prompt, parsed, warnings, msg, eq, response_parts>>

\* coerce_to_response_parts(value)
CoerceToResponseParts(value) ==
    /\ op' = "coerce_to_response_parts"
    /\ args' = [value |-> value]
    /\ err' = ""
    /\ response_parts' = coerce_to_response_parts(value)
    /\ UNCHANGED <<text, prompt, parsed, warnings, msg, eq, messages>>

\* prompt._coerce_to_response_parts(value)
MethodCoerceToResponseParts(value) ==
    /\ IsSet(prompt)
    /\ op' = "_coerce_to_response_parts"
    /\ args' = [value |-> value]
    /\ err' = ""
    /\ response_parts' = method_coerce_to_response_parts(value)
    /\ UNCHANGED <<text, prompt, parsed, warnings, msg, eq, messages>>

----------------------------------------------------------------------------
(* Conversions: the message lists built from prompts, from legacy chat
   messages and from content values *)

MaxParts == 2
MaxRawMessages == 2

STR_Bob == <<"B", "o", "b">>
STR_image == <<"i", "m", "a", "g", "e">>
STR_Systems == <<"S", "y", "s", "t", "e", "m", "s">>

\* the Turns of the prompts that are converted
ConvertTurns ==
    {Message(r, c, n) : r \in {STR_User, STR_Assistant, STR_Bob, STR_Systems},
                        c \in {<<>>, <<"h", "i">>},
                        n \in {None, Some(<<"A", "l">>), Some(<<>>)}}

ConvertPrompts ==
    {StructuredPrompt(<<"N">>, l[1], l[2], c) :
         l \in {<<Some(<<"s">>), None>>, <<None, Some(<<"d">>)>>},
         c \in {None} \cup {Some(q) : q \in SeqsUpTo(ConvertTurns, MaxTurns)}}

\* the elements of a content list
PartValues ==
    {PyDict(<<<<STR_type, PyStr(STR_input_text)>>, <<STR_text, PyStr(<<"a">>)>>>>),
     PyDict(<<<<STR_type, PyStr(STR_input_text)>>, <<STR_text, PyNone>>>>),
     PyDict(<<<<STR_type, PyStr(STR_input_text)>>, <<STR_text, PyInt(7)>>>>),
     PyDict(<<<<STR_type, PyStr(STR_input_text)>>>>),
     PyDict(<<<<STR_type, PyStr(STR_text)>>, <<STR_text, PyStr(<<"b">>)>>>>),
     PyDict(<<<<STR_type, PyStr(STR_text)>>, <<STR_text, PyNone>>>>),
     PyDict(<<<<STR_type, PyStr(STR_image)>>, <<STR_text, PyStr(<<"c">>)>>>>),
     PyDict(<<<<STR_text, PyStr(<<"a">>)>>>>),
     PyStr(<<"s">>),
     PyNone,
     PyInt(7),
     PyList(<<>>)}

\* the content values
ContentValues ==
    {PyNone, PyStr(<<>>), PyStr(<<"h", "i">>), PyInt(7),
     PyDict(<<<<STR_type, PyStr(STR_text)>>, <<STR_text, PyStr(<<"b">>)>>>>)}
        \cup {PyList(q) : q \in SeqsUpTo(PartValues, MaxParts)}

\* the legacy chat messages: with and without a role, with and without content
RawMessages ==
    {PyDict(r \o c) :
         r \in {<<>>} \cup {<<<<STR_role, x>>>> :
                               x \in {PyNone, PyInt(7), PyStr(STR_system),
                                      PyStr(<<"S", "y", "s", "t", "e", "m">>), PyStr(<<"s", "y", "s", "t", "e", "m", "a", "t", "i", "c">>),
                                      PyStr(STR_User), PyStr(<<"t", "o", "o", "l">>)}},
         c \in {<<>>} \cup {<<<<STR_content, x>>>> :
                               x \in {PyStr(<<"h", "i">>),
                                      PyList(<<PyDict(<<<<STR_type, PyStr(STR_text)>>,
                                                        <<STR_text, PyStr(<<"b">>)>>>>)>>)}}}

NextConvert ==
    \/ op = "start" /\ \E p \in ConvertPrompts :
           NewStructuredPrompt(p.name, p.system_message, p.developer_message,
                               p.conversation)
    \/ op = "StructuredPrompt" /\ ToChatCompletionMessages
    \/ op = "StructuredPrompt" /\ \E f \in BOOLEAN : ToResponsesInput(f)
    \/ op = "StructuredPrompt"
           /\ IsNone(prompt[1].conversation)
           /\ \E value \in ContentValues : MethodCoerceToResponseParts(value)
    \/ op = "start" /\ \E value \in ContentValues : CoerceToResponseParts(value)
    \/ op = "start" /\ \E ms \in SeqsUpTo(RawMessages, MaxRawMessages), f \in BOOLEAN :
           ConvertChatMessagesToResponsesInput(ms, f)

SpecConvert == Init /\ [][NextConvert]_vars

\* the lead text of prompt p and the role it was declared with
LeadText(p) ==
    IF IsSet(p.system_message) THEN p.system_message[1] ELSE p.developer_message[1]
LeadRole(p) == IF IsSet(p.system_message) THEN STR_system ELSE STR_developer

\* the Turns of prompt p (none when the conversation is absent)
TurnsOf(p) == IF IsSet(p.conversation) THEN p.conversation[1] ELSE <<>>

\* the keys of dict d, in order
Keys(d) == [k \in 1..Len(d.v) |-> d.v[k][1]]

\* C14: to_chat_completion_messages returns 1 + (number of Turns) messages:
\* the lead message with its declared role and its text as a bare string,
\* then per Turn, in order, the role lower-cased, the content as the list of
\* one text part, and a `name` field exactly when the Turn's name is set (an
\* empty name included).
C14_ChatCompletionMessages ==
    (op = "to_chat_completion_messages") =>
        LET p == prompt[1]
            turns == TurnsOf(p)
        IN  /\ Len(messages) = 1 + Len(turns)
            /\ messages[1] = PyDict(<<<<STR_role, PyStr(LeadRole(p))>>,
                                      <<STR_content, PyStr(LeadText(p))>>>>)
            /\ \A k \in 1..Len(turns) :
                   LET m == messages[k + 1]
                   IN  /\ dict_get(m, STR_role, PyNone) = PyStr(lower(turns[k].role))
                       /\ dict_get(m, STR_content, PyNone)
                              = PyList(<<PyDict(<<<<STR_type, PyStr(STR_text)>>,
                                                  <<STR_text, PyStr(turns[k].content)>>>>)>>)
                       /\ dict_contains(m, STR_name) <=> IsSet(turns[k].name)
                       /\ IsSet(turns[k].name) =>
                              dict_get(m, STR_name, PyNone) = PyStr(turns[k].name[1])

\* C15: to_responses_input returns 1 + (number of Turns) messages: the lead
\* message with role developer when it was declared as developer or the flag
\* is true, and system when it was declared as system and the flag is false,
\* then per Turn, in order, the role lower-cased; every content is the list of
\* one input_text part holding the lead or turn text.
C15_ResponsesInput ==
    (op = "to_responses_input") =>
        LET p == prompt[1]
            turns == TurnsOf(p)
            flag == args.map_system_to_developer
            one_part(t) == PyList(<<PyDict(<<<<STR_type, PyStr(STR_input_text)>>,
                                             <<STR_text, PyStr(t)>>>>)>>)
        IN  /\ Len(messages) = 1 + Len(turns)
            /\ messages[1] =
                   PyDict(<<<<STR_role,
                              PyStr(IF LeadRole(p) = STR_system /\ ~flag
                                    THEN STR_system ELSE STR_developer)>>,
                            <<STR_content, one_part(LeadText(p))>>>>)
            /\ \A k \in 1..Len(turns) :
                   messages[k + 1] =
                       PyDict(<<<<STR_role, PyStr(lower(turns[k].role))>>,
                                <<STR_content, one_part(turns[k].content)>>>>)

C15_Witness ==
    /\ op = "to_responses_input"
    /\ args.map_system_to_developer
    /\ IsSet(prompt[1].system_message)
    /\ Len(messages) = 3
    /\ dict_get(messages[1], STR_role, PyNone) = PyStr(STR_developer)
    /\ dict_get(messages[3], STR_role, PyNone) = PyStr(<<"a", "s", "s", "i", "s", "t", "a", "n", "t">>)

\* the four roles of the Role type
Roles ==
    {STR_user, <<"a", "s", "s", "i", "s", "t", "a", "n", "t">>, STR_developer, STR_system}

\* C16: every message returned by to_responses_input and by
\* convert_chat_messages_to_responses_input, with either flag value, has a
\* role that is one of user, assistant, developer, system.
C16_RolesNormalized ==
    (op \in {"to_responses_input", "convert_chat_messages_to_responses_input"}) =>
        \A k \in 1..Len(messages) :
            \E r \in Roles : dict_get(messages[k], STR_role, PyNone) = PyStr(r)

\* q is a non-empty list of parts, each one a dict of exactly a type
\* input_text and a str text
WellFormedParts(q) ==
    /\ Len(q) >= 1
    /\ \A k \in 1..Len(q) :
           /\ q[k].t = "dict"
           /\ Keys(q[k]) = <<STR_type, STR_text>>
           /\ q[k].v[1][2] = PyStr(STR_input_text)
           /\ q[k].v[2][2].t = "str"

\* C17: part coercion never returns an empty list and every part it returns
\* has type input_text and a str text, for coerce_to_response_parts, for
\* _coerce_to_response_parts and for the contents to_responses_input builds
\* with it; None, "" and [] each give exactly one part with the empty text.
C17_PartsNeverEmpty ==
    /\ (op \in {"coerce_to_response_parts", "_coerce_to_response_parts"}) =>
           /\ WellFormedParts(response_parts)
           /\ args.value \in {PyNone, PyStr(<<>>), PyList(<<>>)} =>
                  response_parts = <<PyDict(<<<<STR_type, PyStr(STR_input_text)>>,
                                              <<STR_text, PyStr(<<>>)>>>>)>>
    /\ (op = "to_responses_input") =>
           \A k \in 1..Len(messages) :
               /\ dict_get(messages[k], STR_content, PyNone).t = "list"
               /\ WellFormedParts(dict_get(messages[k], STR_content, PyNone).v)

C17_Witness ==
    /\ op = "coerce_to_response_parts"
    /\ args.value = PyList(<<>>)
    /\ Len(response_parts) = 1
    /\ response_parts[1].v[2][2] = PyStr(<<>>)

\* the pieces of s between the occurrences of sep, taken from the left
RECURSIVE SplitOn(_, _)
SplitOn(s, sep) ==
    LET at == {i \in 1..(Len(s) - Len(sep) + 1) : SubSeq(s, i, i + Len(sep) - 1) = sep}
    IN  IF at = {} THEN <<s>>
        ELSE <<SubSeq(s, 1, SeqMin(at) - 1)>>
                 \o SplitOn(SubSeq(s, SeqMin(at) + Len(sep), Len(s)), sep)

\* the role of the legacy message m as a str: user when the role is absent
\* (or None)
RawRole(m) ==
    IF dict_get(m, STR_role, PyNone) = PyNone THEN STR_user
    ELSE py_str(dict_get(m, STR_role, PyNone))

\* C18: convert_chat_messages_to_responses_input returns one message per input
\* message, in the same order; each role is the input role (user when absent)
\* lower-cased and, when the flag is true, with every occurrence of `system`
\* replaced by `developer`; when the flag is false the lower-cased role is
\* returned as is.
C18_RolePerMessage ==
    (op = "convert_chat_messages_to_responses_input") =>
        /\ Len(messages) = Len(args.messages)
        /\ \A k \in 1..Len(messages) :
               dict_get(messages[k], STR_role, PyNone) =
                   PyStr(IF args.map_system_to_developer
                         THEN join(STR_developer,
                                   SplitOn(lower(RawRole(args.messages[k])), STR_system))
                         ELSE lower(RawRole(args.messages[k])))

C18_Witness ==
    /\ op = "convert_chat_messages_to_responses_input"
    /\ args.map_system_to_developer
    /\ Len(args.messages) = 2
    /\ dict_get(args.messages[1], STR_role, PyNone)
           = PyStr(<<"s", "y", "s", "t", "e", "m", "a", "t", "i", "c">>)
    /\ dict_get(messages[1], STR_role, PyNone)
           = PyStr(<<"d", "e", "v", "e", "l", "o", "p", "e", "r", "a", "t", "i", "c">>)
    /\ ~dict_contains(args.messages[2], STR_role)
    /\ dict_get(messages[2], STR_role, PyNone) = PyStr(STR_user)

\* the part claimed for the element e of a content list
PartFor(e) ==
    LET typed(ty) == /\ e.t = "dict"
                     /\ dict_contains(e, STR_type)
                     /\ dict_get(e, STR_type, PyNone) = PyStr(ty)
                     /\ dict_contains(e, STR_text)
        text_value == dict_get(e, STR_text, PyNone)
    IN  PyDict(<<<<STR_type, PyStr(STR_input_text)>>,
                 <<STR_text,
                   PyStr(IF typed(STR_input_text) \/ typed(STR_text)
                         THEN (IF text_value = PyNone THEN <<>> ELSE py_str(text_value))
                         ELSE py_str(e))>>>>)

\* C19: coerce_to_response_parts maps each element of a non-empty list to one
\* part, in order: a dict of type input_text or text with a text key keeps
\* its text stringified (None gives the empty string), any other element is
\* stringified whole; a value that is not a list gives one part holding the
\* stringified value (None gives the empty string).
C19_PartPerElement ==
    (op = "coerce_to_response_parts") =>
        LET value == args.value
        IN  /\ (value.t = "list" /\ Len(value.v) > 0) =>
                   /\ Len(response_parts) = Len(value.v)
                   /\ \A k \in 1..Len(value.v) : response_parts[k] = PartFor(value.v[k])
            /\ value.t # "list" =>
                   response_parts =
                       <<PyDict(<<<<STR_type, PyStr(STR_input_text)>>,
                                  <<STR_text,
                                    PyStr(IF value = PyNone THEN <<>> ELSE py_str(value))>>>>)>>

C19_Witness ==
    /\ op = "coerce_to_response_parts"
    /\ args.value.t = "list"
    /\ Len(args.value.v) = 2
    /\ args.value.v[1] = PyDict(<<<<STR_type, PyStr(STR_text)>>, <<STR_text, PyStr(<<"b">>)>>>>)
    /\ args.value.v[2] = PyDict(<<<<STR_type, PyStr(STR_image)>>, <<STR_text, PyStr(<<"c">>)>>>>)
    /\ Len(response_parts) = 2
    /\ response_parts[1].v[2][2] = PyStr(<<"b">>)
    /\ Len(response_parts[2].v[2][2].v) > 10


\* C26: for every content value (None, a string, a list of input_text dicts,
\* of text dicts or of other elements), StructuredPrompt._coerce_to_response_parts
\* and the standalone coerce_to_response_parts return the same list of parts.
C26_SingleCoercionRule ==
    /\ op = "_coerce_to_response_parts"
           => response_parts = coerce_to_response_parts(args.value)
    /\ op = "coerce_to_response_parts"
           => response_parts = method_coerce_to_response_parts(args.value)

\* C30: for every prompt and each value of the flag, to_responses_input
\* returns what convert_chat_messages_to_responses_input returns for the
\* messages of to_chat_completion_messages: the same roles and the same parts,
\* message by message.
C30_ConverterAgreement ==
    op = "to_responses_input" =>
        messages = convert_chat_messages_to_responses_input(
                       to_chat_completion_messages(prompt[1]),
                       args.map_system_to_developer)
====
